---- MODULE Spec2Model ----
(***************************************************************************)
(* Order lifecycle of the WhatsApp delivery bot: the orders and            *)
(* order_history tables (config/database.js), OrderService (createOrder,   *)
(* updateOrderStatus, addOrderHistory, getOrderById) and the message       *)
(* handlers of WhatsAppService (handleSalesGroupMessage,                    *)
(* handleDeliveryGroupMessage, markOrderAsDelivered, cancelOrder).          *)
(* Every await of the JavaScript code is a point where another message     *)
(* handler may run, so each database query and each send is its own step.  *)
(*                                                                         *)
(* Spec follows the handlers and the tables. Three functions are followed  *)
(* on their own inputs as well: SpecCmd the if / else-if chain of          *)
(* handleDeliveryGroupMessage, SpecSend one send with its retries, and     *)
(* SpecParse OrderParser.parseOrder with the branch that                   *)
(* handleSalesGroupMessage takes on its result.                            *)
(***************************************************************************)
EXTENDS Integers, Sequences, FiniteSets, TLC

\* ---------------------------------------------------------------- bounds
NumSenders == 1
MaxTime == 3

\* The message handlers that may be in progress at the same time.
Handlers == {"h1", "h2"}

\* The values of Math.floor(Math.random() * 1000) that are drawn.
Suffixes == {42}

Senders == 1..NumSenders
Times == 1..MaxTime

\* SQL NULL in the columns delivery_person, delivered_at and cancelled_at
\* (persons and times are numbered from 1).
NULL == 0

\* getOrderById found no row: the JavaScript null.
NoOrder == "null"

\* ------------------------------------------------------------- order ids
\* Helpers.generateOrderId: `ORD${date}${random}`; n stands for the digits.
generateOrderId(n) == [prefix |-> "ORD", n |-> n]

OrderIds == {generateOrderId(n) : n \in Suffixes}

\* The empty id: nothing after "#", or no "Order #<token>" in the quoted
\* body (extractOrderIdFromMessage then returns null).
NoId == [prefix |-> "", n |-> 0]

\* String.prototype.toLowerCase applied to the text of an order id.
toLowerCase(id) == IF id = NoId THEN NoId ELSE [prefix |-> "ord", n |-> id.n]

\* The ids that a quoted message may show: those of the orders and another one.
QuotedIds == OrderIds \cup {generateOrderId(7)}

\* The longest quoted body that is drawn, in stretches of text.
MaxRefs == 3

\* quotedMessage.body: the stretches of the text, each the id of an
\* "Order #<token>" occurrence or NoId for text without one, left to right.
QuotedBodies(ids, n) == UNION {[1..k -> ids \cup {NoId}] : k \in 0..n}

\* extractOrderIdFromMessage with the match taken at the end of the body.
RECURSIVE extractOrderIdFromMessage_LastMatch(_)
extractOrderIdFromMessage_LastMatch(messageBody) ==
  IF messageBody = <<>> THEN NoId
  ELSE IF messageBody[Len(messageBody)] # NoId THEN messageBody[Len(messageBody)]
  ELSE extractOrderIdFromMessage_LastMatch(SubSeq(messageBody, 1, Len(messageBody) - 1))

\* extractOrderIdFromMessage: messageBody.match(/Order #(\w+)/) scans from the
\* left and returns the token of the first match, or null.
RECURSIVE extractOrderIdFromMessage(_)
extractOrderIdFromMessage(messageBody) ==
  IF messageBody = <<>> THEN NoId
  ELSE IF Head(messageBody) # NoId THEN Head(messageBody)
  ELSE extractOrderIdFromMessage(Tail(messageBody))

\* One call made by handleDeliveryGroupMessage.
Call(c, id) == [cmd |-> c, orderId |-> id]

\* String.prototype.toLowerCase applied to a word of a message.
toLowerCaseWord(w) ==
  CASE w = "Done" -> "done"
    [] w = "CANCEL" -> "cancel"
    [] w = "/HELP" -> "/help"
    [] w = "Done #" -> "done #"
    [] w = "CANCEL #" -> "cancel #"
    [] w = "Name:" -> "name:"
    [] OTHER -> w

\* ------------------------------------------------------------ OrderParser
\* What the string tests of OrderParser see in a word: its number of
\* characters and of digits, the texts it contains, the text before its colon
\* and the date that moment parses from it.
Word(chars, digits, has, stem, date) ==
  [chars |-> chars, digits |-> digits, has |-> has, stem |-> stem, date |-> date]

\* The words of the sales-group messages that are drawn. A line of a message
\* is a sequence of words, written with one space between them.
Vocabulary ==
  ( "name:" :> Word(5, 0, {":", "letter1"}, "name", "") ) @@
  ( "Name:" :> Word(5, 0, {":", "letter1"}, "Name", "") ) @@
  ( "phone:" :> Word(6, 0, {":", "letter1", "phone"}, "phone", "") ) @@
  ( "address:" :> Word(8, 0, {":", "letter1"}, "address", "") ) @@
  ( "item:" :> Word(5, 0, {":", "letter1", "item"}, "item", "") ) @@
  ( ":" :> Word(1, 0, {":"}, "", "") ) @@
  ( "ada" :> Word(3, 0, {"letters", "letter1"}, "", "") ) @@
  ( "iphone" :> Word(6, 0, {"letters", "letter1", "phone"}, "", "") ) @@
  ( "rice" :> Word(4, 0, {"letters", "letter1", "food"}, "", "") ) @@
  ( "street" :> Word(6, 0, {"letters", "letter1", "street"}, "", "") ) @@
  ( "plates" :> Word(6, 0, {"letters", "letter1", "unit"}, "", "") ) @@
  ( "no." :> Word(3, 0, {"letter1", "no."}, "", "") ) @@
  ( "12" :> Word(2, 2, {"digit1", "digitLast"}, "", "") ) @@
  ( "08012345678" :> Word(11, 11, {"digit1", "digitLast"}, "", "") ) @@
  ( "today" :> Word(5, 0, {"letters", "letter1", "today"}, "", "") ) @@
  ( "tomorrow" :> Word(8, 0, {"letters", "letter1", "tomorrow"}, "", "") ) @@
  ( "monday" :> Word(6, 0, {"letters", "letter1", "weekday"}, "", "") ) @@
  ( "15/01/2024" :> Word(10, 8, {"digit1", "digitLast", "date"}, "", "2024-01-15") )

\* parseDate found no date: the JavaScript null.
NoDate == "null"

\* line.length
RECURSIVE length(_)
length(line) ==
  IF line = <<>> THEN 0
  ELSE Vocabulary[Head(line)].chars + (IF Len(line) > 1 THEN 1 ELSE 0)
         + length(Tail(line))

\* line.replace(/\D/g, '').length
RECURSIVE digitCount(_)
digitCount(line) ==
  IF line = <<>> THEN 0
  ELSE Vocabulary[Head(line)].digits + digitCount(Tail(line))

\* message.body.length: the lines and the line breaks between them.
RECURSIVE bodyLength(_)
bodyLength(body) ==
  IF body = <<>> THEN 0
  ELSE length(Head(body)) + (IF Len(body) > 1 THEN 1 ELSE 0)
         + bodyLength(Tail(body))

\* line.includes(text), for the texts the parser looks for.
includes(line, text) ==
  \E k \in 1..Len(line) : text \in Vocabulary[line[k]].has

\* line.toLowerCase().startsWith(label), for a label written as one word.
startsWith(line, label) ==
  line # <<>> /\ toLowerCaseWord(Head(line)) = label

\* The text of a line before its first colon, the colon left out.
RECURSIVE beforeColon(_)
beforeColon(line) ==
  IF line = <<>> THEN <<>>
  ELSE IF ":" \in Vocabulary[Head(line)].has
    THEN IF Vocabulary[Head(line)].stem = "" THEN <<>>
                                               ELSE <<Vocabulary[Head(line)].stem>>
    ELSE <<Head(line)>> \o beforeColon(Tail(line))

\* The text of a line after its first colon.
RECURSIVE afterColon(_)
afterColon(line) ==
  IF line = <<>> THEN <<>>
  ELSE IF ":" \in Vocabulary[Head(line)].has THEN Tail(line)
  ELSE afterColon(Tail(line))

\* line.split(':')[1].trim(): the text between the first colon of the line
\* and the second one.
splitColon1(line) == beforeColon(afterColon(line))

\* isPhoneNumber: 10 to 15 digits; the test on the leading digits that
\* follows always passes, as it accepts every text of at least 10 digits.
isPhoneNumber(str) == digitCount(str) >= 10 /\ digitCount(str) <= 15

\* isDateString: one of the five date patterns matches somewhere in the text.
isDateString(str) ==
  \/ includes(str, "date")
  \/ includes(str, "tomorrow") \/ includes(str, "today")
  \/ includes(str, "weekday")

\* parseDate: tomorrow, today, or the strict parse of the whole text.
parseDate(dateStr) ==
  IF includes(dateStr, "tomorrow") THEN "tomorrow"
  ELSE IF includes(dateStr, "today") THEN "today"
  ELSE IF Len(dateStr) = 1 /\ Vocabulary[dateStr[1]].date # ""
    THEN Vocabulary[dateStr[1]].date
  ELSE NoDate

\* const result = {}: no field is set (an unset text is the empty text).
NoFields ==
  [customerName |-> <<>>, phoneNumber |-> <<>>, address |-> <<>>,
   items |-> <<>>, deliveryDate |-> NoDate]

\* parseLabeledFormat: the body of the loop, for one line.
parseLabeledLine(result, line) ==
  IF startsWith(line, "name:")
    THEN [result EXCEPT !.customerName = Tail(line)]
  ELSE IF includes(line, "phone") /\ includes(line, ":")
    THEN [result EXCEPT !.phoneNumber = splitColon1(line)]
  ELSE IF startsWith(line, "address:")
    THEN [result EXCEPT !.address = Tail(line)]
  ELSE IF includes(line, "item") /\ includes(line, ":")
    THEN [result EXCEPT !.items = splitColon1(line)]
  ELSE IF isDateString(line)
    THEN [result EXCEPT !.deliveryDate = parseDate(line)]
  ELSE result

\* parseLabeledFormat: the lines are gone through in their order, a later
\* line overwriting the field of an earlier one.
RECURSIVE parseLabeledFormat(_)
parseLabeledFormat(lines) ==
  IF lines = <<>> THEN NoFields
  ELSE parseLabeledLine(parseLabeledFormat(SubSeq(lines, 1, Len(lines) - 1)),
                        lines[Len(lines)])

\* calculatePatternScore: the number of patterns that match the text, given
\* the outcome of each pattern.test(text).
calculatePatternScore(tests) == Cardinality({k \in DOMAIN tests : tests[k]})

\* namePatterns, tested on a line.
namePatterns(line) ==
  << /\ \A k \in 1..Len(line) : "letters" \in Vocabulary[line[k]].has
     /\ length(line) >= 2 /\ length(line) <= 50,
     /\ Len(line) >= 2
     /\ "letters" \in Vocabulary[line[1]].has
     /\ "letter1" \in Vocabulary[line[2]].has >>

\* addressPatterns, tested on a line.
addressPatterns(line) ==
  << \E i \in 1..Len(line), j \in 1..Len(line) :
       /\ i < j
       /\ Vocabulary[line[i]].digits > 0
       /\ "street" \in Vocabulary[line[j]].has,
     \E i \in 1..(Len(line) - 1) :
       /\ "no." \in Vocabulary[line[i]].has
       /\ "digit1" \in Vocabulary[line[i + 1]].has,
     \E i \in 1..(Len(line) - 1) : "digitLast" \in Vocabulary[line[i]].has,
     length(line) >= 20 >>

\* itemPatterns, tested on a line.
itemPatterns(line) ==
  << includes(line, "food"),
     \E i \in 1..(Len(line) - 1) :
       /\ "digitLast" \in Vocabulary[line[i]].has
       /\ "unit" \in Vocabulary[line[i + 1]].has,
     \E i \in 1..(Len(line) - 1) : "digitLast" \in Vocabulary[line[i]].has >>

\* assignRemainingFields: the scores of a line.
scores(line) ==
  [nameScore |-> calculatePatternScore(namePatterns(line)),
   addressScore |-> calculatePatternScore(addressPatterns(line)),
   itemScore |-> calculatePatternScore(itemPatterns(line))]

\* assignRemainingFields: Math.max of the three scores.
maxScore(score) ==
  IF score.nameScore >= score.addressScore /\ score.nameScore >= score.itemScore
    THEN score.nameScore
  ELSE IF score.addressScore >= score.itemScore THEN score.addressScore
  ELSE score.itemScore

\* assignRemainingFields: bestType.
bestType(score) ==
  IF score.nameScore >= score.addressScore /\ score.nameScore >= score.itemScore
    THEN "name"
  ELSE IF score.addressScore >= score.itemScore THEN "address"
  ELSE "items"

\* assignRemainingFields: .sort((a, b) => b.maxScore - a.maxScore), which
\* keeps lines of equal maxScore in their order.
sortedByConfidence(lines) ==
  LET m(i) == maxScore(scores(lines[i]))
      before(i) == {j \in 1..Len(lines) : m(j) > m(i) \/ (m(j) = m(i) /\ j < i)}
  IN [k \in 1..Len(lines) |->
        lines[CHOOSE i \in 1..Len(lines) : Cardinality(before(i)) = k - 1]]

\* assignRemainingFields: the loop over sortedByConfidence; a field is
\* assigned when result holds a line for it.
RECURSIVE assignBestMatches(_, _)
assignBestMatches(sorted, result) ==
  IF sorted = <<>> THEN result
  ELSE LET item == Head(sorted)
           type == bestType(scores(item))
       IN assignBestMatches(Tail(sorted),
            IF type = "name" /\ result.customerName = <<>>
              THEN [result EXCEPT !.customerName = item]
            ELSE IF type = "address" /\ result.address = <<>>
              THEN [result EXCEPT !.address = item]
            ELSE IF type = "items" /\ result.items = <<>>
              THEN [result EXCEPT !.items = item]
            ELSE result)

\* assignRemainingFields: `if (!assigned.items && unassignedIndex <
\* unassignedLines.length)`, for the unassigned lines not yet given out.
fillItems(result, unassigned) ==
  IF result.items = <<>> /\ unassigned # <<>>
    THEN [result EXCEPT !.items = Head(unassigned)]
    ELSE result

\* assignRemainingFields: the same for address, then items.
fillAddress(result, unassigned) ==
  IF result.address = <<>> /\ unassigned # <<>>
    THEN fillItems([result EXCEPT !.address = Head(unassigned)], Tail(unassigned))
    ELSE fillItems(result, unassigned)

\* assignRemainingFields: the same for customerName, then address, then items.
fillName(result, unassigned) ==
  IF result.customerName = <<>> /\ unassigned # <<>>
    THEN fillAddress([result EXCEPT !.customerName = Head(unassigned)],
                     Tail(unassigned))
    ELSE fillAddress(result, unassigned)

\* assignRemainingFields: the lines whose text is the value of no field.
unassignedLines(lines, result) ==
  SelectSeq(lines, LAMBDA line : /\ line # result.customerName
                                 /\ line # result.address
                                 /\ line # result.items)

\* assignRemainingFields: the unassigned lines are given, in order, to the
\* fields that are still unassigned.
fillUnassigned(lines, result) ==
  fillName(result, unassignedLines(lines, result))

\* assignRemainingFields
assignRemainingFields(lines) ==
  fillUnassigned(lines, assignBestMatches(sortedByConfidence(lines), NoFields))

\* lines.filter((line, index) => !usedLines.has(index))
RECURSIVE remainingLines(_, _, _)
remainingLines(lines, usedLines, index) ==
  IF index > Len(lines) THEN <<>>
  ELSE (IF index \in usedLines THEN <<>> ELSE <<lines[index]>>)
         \o remainingLines(lines, usedLines, index + 1)

\* parseUnlabeledFormat: phoneNumbers[0].index, 0 when no line is a phone
\* number.
firstPhoneNumber(lines) ==
  IF \E i \in 1..Len(lines) : isPhoneNumber(lines[i])
    THEN CHOOSE i \in 1..Len(lines) :
           /\ isPhoneNumber(lines[i])
           /\ \A j \in 1..(i - 1) : ~isPhoneNumber(lines[j])
    ELSE 0

\* parseUnlabeledFormat: the date lines that are not the phone line; each of
\* them is added to usedLines.
dateLines(lines, first) ==
  {i \in 1..Len(lines) : isDateString(lines[i]) /\ i # first}

\* parseUnlabeledFormat: every date line sets result.deliveryDate, so the
\* last one decides.
lastDate(lines, dates) ==
  IF dates = {} THEN NoDate
  ELSE parseDate(lines[CHOOSE i \in dates : \A j \in dates : j <= i])

\* parseUnlabeledFormat: assignRemainingFields on two or more remaining
\* lines, nothing on fewer.
assignRemaining(remaining) ==
  IF Len(remaining) >= 2 THEN assignRemainingFields(remaining) ELSE NoFields

\* parseUnlabeledFormat: the result, from the phone line, the date and the
\* assignments.
unlabeledResult(phone, date, assignments) ==
  [customerName |-> assignments.customerName,
   phoneNumber |-> phone,
   address |-> assignments.address,
   items |-> assignments.items,
   deliveryDate |-> date]

\* parseUnlabeledFormat, once the phone line and the date lines are found.
parseUnlabeledLines(lines, first, dates) ==
  unlabeledResult(IF first = 0 THEN <<>> ELSE lines[first],
                  lastDate(lines, dates),
                  assignRemaining(remainingLines(lines, dates \cup {first}, 1)))

\* parseUnlabeledFormat: the first phone-number line, then every date line
\* that is not the phone line, then the remaining lines.
parseUnlabeledFormat(lines) ==
  parseUnlabeledLines(lines, firstPhoneNumber(lines),
                      dateLines(lines, firstPhoneNumber(lines)))

\* parseOrder with deliveryDate among the required fields.
Incomplete_DateRequired(data) ==
  \/ data.customerName = <<>> \/ data.phoneNumber = <<>>
  \/ data.address = <<>> \/ data.items = <<>>
  \/ data.deliveryDate = NoDate

\* parseOrder: a required field is missing.
Incomplete(data) ==
  \/ data.customerName = <<>> \/ data.phoneNumber = <<>>
  \/ data.address = <<>> \/ data.items = <<>>

\* parseOrder with the unlabeled pass taking precedence: a field of the
\* labeled pass is taken when the unlabeled pass left that field empty.
mergeFields_UnlabeledFirst(labeledData, unlabeledData) ==
  [customerName |-> IF unlabeledData.customerName # <<>>
                      THEN unlabeledData.customerName
                      ELSE labeledData.customerName,
   phoneNumber |-> IF unlabeledData.phoneNumber # <<>>
                     THEN unlabeledData.phoneNumber
                     ELSE labeledData.phoneNumber,
   address |-> IF unlabeledData.address # <<>>
                 THEN unlabeledData.address
                 ELSE labeledData.address,
   items |-> IF unlabeledData.items # <<>>
               THEN unlabeledData.items
               ELSE labeledData.items,
   deliveryDate |-> IF unlabeledData.deliveryDate # NoDate
                      THEN unlabeledData.deliveryDate
                      ELSE labeledData.deliveryDate]

\* parseOrder: a field of the unlabeled pass is taken when the labeled pass
\* left that field empty.
mergeFields(labeledData, unlabeledData) ==
  [customerName |-> IF labeledData.customerName # <<>>
                      THEN labeledData.customerName
                      ELSE unlabeledData.customerName,
   phoneNumber |-> IF labeledData.phoneNumber # <<>>
                     THEN labeledData.phoneNumber
                     ELSE unlabeledData.phoneNumber,
   address |-> IF labeledData.address # <<>>
                 THEN labeledData.address
                 ELSE unlabeledData.address,
   items |-> IF labeledData.items # <<>>
               THEN labeledData.items
               ELSE unlabeledData.items,
   deliveryDate |-> IF labeledData.deliveryDate # NoDate
                      THEN labeledData.deliveryDate
                      ELSE unlabeledData.deliveryDate]

\* parseOrder: the second pass runs when a required field is missing.
secondPass(lines, labeledData) ==
  IF Incomplete(labeledData)
    THEN mergeFields(labeledData, parseUnlabeledFormat(lines))
    ELSE labeledData

\* parseOrder: the validation of the required fields and the draft that is
\* returned; null is the empty sequence, a draft a sequence of one.
validated(data, addedBy) ==
  IF Incomplete(data) THEN <<>>
  ELSE <<[customerName |-> data.customerName,
          phoneNumber |-> data.phoneNumber,
          address |-> data.address,
          items |-> data.items,
          deliveryDate |-> data.deliveryDate,
          addedBy |-> addedBy]>>

\* parseOrder, for the trimmed, non-empty lines of the message.
parseLines(lines, addedBy) ==
  IF Len(lines) < 3 THEN <<>>
  ELSE validated(secondPass(lines, parseLabeledFormat(lines)), addedBy)

\* parseOrder
parseOrder(messageBody, addedBy) ==
  parseLines(SelectSeq(messageBody, LAMBDA line : line # <<>>), addedBy)

\* parseOrder: messageBody.trim().split('\n').map(...).filter(line => line).
splitLines(messageBody) == SelectSeq(messageBody, LAMBDA line : line # <<>>)

\* parseOrder: labeledData; nothing is parsed for fewer than 3 lines.
firstPass(lines) ==
  IF Len(lines) < 3 THEN NoFields ELSE parseLabeledFormat(lines)

\* parseOrder: parseUnlabeledFormat is called, which is when the message has
\* 3 lines or more and the labeled pass left a required field empty.
runsSecondPass(lines, labeledData) == Len(lines) >= 3 /\ Incomplete(labeledData)

\* parseOrder: what is returned, given the results of the two passes: null
\* for fewer than 3 lines, else the validation of the merged fields.
returnDraft(lines, labeledData, unlabeledData, addedBy) ==
  IF Len(lines) < 3 THEN <<>>
  ELSE validated(IF Incomplete(labeledData)
                   THEN mergeFields(labeledData, unlabeledData)
                   ELSE labeledData,
                 addedBy)

\* parseUnlabeledFormat: remainingLines, the lines left once the phone line
\* and the date lines are in usedLines.
remainingOf(lines) ==
  remainingLines(lines,
                 dateLines(lines, firstPhoneNumber(lines)) \cup {firstPhoneNumber(lines)},
                 1)

\* ------------------------------------------------------------- Helpers
\* The characters that are digits.
Digits == {"0", "1", "2", "3", "4", "5", "6", "7", "8", "9"}

\* formatPhoneNumber: phone.replace(/\D/g, ''); a text is the sequence of its
\* characters.
replaceNonDigits(phone) == SelectSeq(phone, LAMBDA c : c \in Digits)

\* cleaned.startsWith(prefix)
cleanedStartsWith(cleaned, prefix) ==
  Len(cleaned) >= Len(prefix) /\ SubSeq(cleaned, 1, Len(prefix)) = prefix

\* formatPhoneNumber with the leading 0 kept behind the country code.
addCountryCode_KeepsZero(cleaned) ==
  IF cleanedStartsWith(cleaned, <<"0">>)
    THEN <<"+", "2", "3", "4">> \o cleaned
  ELSE IF ~cleanedStartsWith(cleaned, <<"2", "3", "4">>)
    THEN <<"+", "2", "3", "4">> \o cleaned
  ELSE <<"+">> \o cleaned

\* formatPhoneNumber with the country code put before every cleaned text.
addCountryCode_AlwaysPrepends(cleaned) ==
  IF cleanedStartsWith(cleaned, <<"0">>)
    THEN <<"+", "2", "3", "4">> \o SubSeq(cleaned, 2, Len(cleaned))
  ELSE <<"+", "2", "3", "4">> \o cleaned

\* formatPhoneNumber: the branches on the cleaned text.
addCountryCode(cleaned) ==
  IF cleanedStartsWith(cleaned, <<"0">>)
    THEN <<"+", "2", "3", "4">> \o SubSeq(cleaned, 2, Len(cleaned))
  ELSE IF ~cleanedStartsWith(cleaned, <<"2", "3", "4">>)
    THEN <<"+", "2", "3", "4">> \o cleaned
  ELSE <<"+">> \o cleaned

\* formatPhoneNumber
formatPhoneNumber(phone) == addCountryCode(replaceNonDigits(phone))

\* ---------------------------------------------------------------- state
VARIABLES
  orders,      \* table orders: order_id -> row
  history,     \* table order_history, in insertion order
  now,         \* CURRENT_TIMESTAMP of the next UPDATE (each one is later)
  pc,          \* position of each message handler
  cmd,         \* what the handled message resolved to
  orderId,     \* the order id the handler works on
  senderName,  \* contact.name || contact.number
  order,       \* status of the row read by getOrderById ("unread" before)
  outMsg,      \* the message being sent to a group
  received,    \* the delivery-group message given to handleDeliveryGroupMessage
  called,      \* the calls handleDeliveryGroupMessage made for it
  sendMsg,     \* the message given to sendToSalesGroup / sendToDeliveryGroup
  sendPc,      \* position inside that send
  retry,       \* the loop variable i of retryOperation
  results,     \* outcome of each client.sendMessage call so far
  slept,       \* the waits made by Helpers.sleep so far, in milliseconds
  salesBody,   \* message.body of the sales-group message being parsed
  labeledPass,   \* parseOrder: labeledData, the result of parseLabeledFormat
  unlabeledPass, \* parseOrder: unlabeledData, the result of parseUnlabeledFormat
  poolLines,   \* parseUnlabeledFormat: remainingLines
  orderData,   \* what parseOrder returned for it
  salesPc,     \* position of handleSalesGroupMessage for it
  rawPhone,    \* orderData.phoneNumber given to createOrder
  storedPhone, \* the phone_number value of its INSERT INTO orders
  phonePc,     \* position of that createOrder
  inbound,     \* the message given to handleMessage, with its chat and contact
  handled,     \* the calls made for it by the handler of its group
  retryCount,  \* this.retryCount
  timers,      \* the delays of the setTimeout callbacks that are pending
  scheduled,   \* the delays of the attempts scheduled since the last 'ready'
  readyDue     \* client.initialize() has succeeded and 'ready' is to be emitted

vars == <<orders, history, now, pc, cmd, orderId, senderName, order, outMsg,
          received, called, sendMsg, sendPc, retry, results, slept,
          salesBody, labeledPass, unlabeledPass, poolLines, orderData, salesPc,
          rawPhone, storedPhone, phonePc, inbound, handled,
          retryCount, timers, scheduled, readyDue>>

botVars == <<orders, history, now, pc, cmd, orderId, senderName, order, outMsg>>

cmdVars == <<received, called>>

sendVars == <<sendMsg, sendPc, retry, results, slept>>

parseVars == <<salesBody, labeledPass, unlabeledPass, poolLines, orderData, salesPc>>

phoneVars == <<rawPhone, storedPhone, phonePc>>

msgVars == <<inbound, handled>>

connVars == <<retryCount, timers, scheduled, readyDue>>

\* The variables of the functions that are followed on their own.
aux == <<cmdVars, sendVars, parseVars, phoneVars, msgVars, connVars>>

locals == <<pc, cmd, orderId, senderName, order, outMsg>>

NoMsg == [to |-> "none", kind |-> "none"]

\* CREATE TABLE orders: status DEFAULT 'pending', the other columns NULL.
NewOrderRow(addedBy) ==
  [status |-> "pending", added_by |-> addedBy, delivery_person |-> NULL,
   delivered_at |-> NULL, cancelled_at |-> NULL]

\* INSERT INTO order_history (order_id, status, changed_by, notes)
HistoryRow(id, status, changedBy, notes) ==
  [order_id |-> id, status |-> status, changed_by |-> changedBy,
   notes |-> notes]

\* No delivery-group message is being interpreted on its own.
NoMessage == [body |-> [word |-> "", id |-> NoId], hasQuotedMsg |-> FALSE,
              quotedBody |-> <<>>]

NotCalled == <<Call("", NoId)>>

InterpreterIdle == received = NoMessage /\ called = NotCalled

BotIdle ==
  /\ orders = <<>>
  /\ history = <<>>
  /\ now = 1
  /\ pc = [h \in Handlers |-> "idle"]
  /\ cmd = [h \in Handlers |-> "none"]
  /\ orderId = [h \in Handlers |-> NoId]
  /\ senderName = [h \in Handlers |-> NULL]
  /\ order = [h \in Handlers |-> "unread"]
  /\ outMsg = [h \in Handlers |-> NoMsg]

\* No send is being followed on its own.
TransportIdle ==
  /\ sendMsg = NoMsg
  /\ sendPc = "idle"
  /\ retry = 0
  /\ results = <<>>
  /\ slept = <<>>

\* No sales-group message is being parsed on its own.
ParserIdle ==
  /\ salesBody = <<>>
  /\ labeledPass = NoFields
  /\ unlabeledPass = NoFields
  /\ poolLines = <<>>
  /\ orderData = <<>>
  /\ salesPc = "idle"

\* No createOrder is being followed on its own.
PhoneIdle ==
  /\ rawPhone = <<>>
  /\ storedPhone = <<>>
  /\ phonePc = "idle"

\* No message is being dispatched on its own.
NoInbound == [chat |-> "none", isMe |-> FALSE, parsed |-> FALSE,
              message |-> NoMessage]

DispatchIdle == inbound = NoInbound /\ handled = NotCalled

\* The constructor: this.retryCount = 0; no reconnection is under way.
Connected ==
  /\ retryCount = 0
  /\ timers = <<>>
  /\ scheduled = <<>>
  /\ readyDue = FALSE

Init ==
  /\ BotIdle /\ InterpreterIdle /\ TransportIdle /\ ParserIdle /\ PhoneIdle
  /\ DispatchIdle /\ Connected

\* -------------------------------------------------------- OrderService
\* updateOrderStatus writing a status of its own in the last UPDATE.
updateOrderStatus_OtherStatus(row, status, deliveryPerson, t) ==
  [row EXCEPT !.status = "processing", !.delivery_person = deliveryPerson]

\* updateOrderStatus: the row written by the UPDATE chosen for `status`.
updateOrderStatus(row, status, deliveryPerson, t) ==
  IF status = "delivered"
    THEN [row EXCEPT !.status = status, !.delivery_person = deliveryPerson,
                     !.delivered_at = t]
    ELSE IF status = "cancelled"
      THEN [row EXCEPT !.status = status, !.cancelled_at = t]
      ELSE [row EXCEPT !.status = status, !.delivery_person = deliveryPerson]

\* getOrderById: result.rows[0] || null, reduced to the status the callers use.
getOrderById(id) == IF id \in DOMAIN orders THEN orders[id].status ELSE NoOrder

\* ------------------------------------------------ WhatsAppService checks
\* markOrderAsDelivered without the `order.status === 'cancelled'` return.
markOrderAsDeliveredCheck_NoCancelledReturn(st) ==
  IF st = NoOrder THEN "NotFound"
  ELSE IF st = "delivered" THEN "AlreadyDelivered"
  ELSE "proceed"

\* markOrderAsDelivered without the `!order` return.
markOrderAsDeliveredCheck_NoNullReturn(st) ==
  IF st = "delivered" THEN "AlreadyDelivered"
  ELSE IF st = "cancelled" THEN "InvalidTransition"
  ELSE "proceed"

\* markOrderAsDelivered: the early returns taken on the row that was read.
markOrderAsDeliveredCheck(st) ==
  IF st = NoOrder THEN "NotFound"
  ELSE IF st = "delivered" THEN "AlreadyDelivered"
  ELSE IF st = "cancelled" THEN "InvalidTransition"
  ELSE "proceed"

\* cancelOrder without the `order.status === 'delivered'` return.
cancelOrderCheck_NoDeliveredReturn(st) ==
  IF st = NoOrder THEN "NotFound"
  ELSE IF st = "cancelled" THEN "AlreadyCancelled"
  ELSE "proceed"

\* cancelOrder: the early returns taken on the row that was read.
cancelOrderCheck(st) ==
  IF st = NoOrder THEN "NotFound"
  ELSE IF st = "cancelled" THEN "AlreadyCancelled"
  ELSE IF st = "delivered" THEN "InvalidTransition"
  ELSE "proceed"

\* The words of message.body that are drawn: as typed, in either case.
CommandWords == {"done", "Done", "cancel", "CANCEL", "/daily", "/pending",
                 "/weekly", "/monthly", "/help", "/HELP", "thanks"}

\* The words that are followed by the text of an order id.
PrefixWords == {"done #", "Done #", "cancel #", "CANCEL #"}

\* The texts typed after "#" for the given ids: as displayed, in lower case,
\* or nothing.
TypedIds(ids) == ids \cup {toLowerCase(id) : id \in ids} \cup {NoId}

\* message.body of a delivery-group message: a word, and after a prefix word
\* the text that follows it.
BodyForms(ids) ==
  [word : CommandWords, id : {NoId}] \cup [word : PrefixWords, id : TypedIds(ids)]

\* The delivery-group messages that name the given ids, with quoted bodies of
\* at most n stretches; a message that is not a reply has no quoted body.
DeliveryMessages(ids, n) ==
  [body : BodyForms(ids), hasQuotedMsg : {TRUE}, quotedBody : QuotedBodies(ids, n)]
    \cup [body : BodyForms(ids), hasQuotedMsg : {FALSE}, quotedBody : {<<>>}]

\* handleReplyCompletion / handleReplyCancellation: the operation is called
\* when an order id is extracted from the quoted message.
handleReply(c, quotedBody) ==
  IF extractOrderIdFromMessage(quotedBody) # NoId
    THEN <<Call(c, extractOrderIdFromMessage(quotedBody))>>
    ELSE <<>>

\* handleDeliveryGroupMessage with sendHelpMessage as the last else branch.
handleDeliveryGroupMessage_HelpByDefault(message) ==
  LET word == toLowerCaseWord(message.body.word)
      id == toLowerCase(message.body.id)
  IN IF message.hasQuotedMsg /\ word = "done"
       THEN handleReply("deliver", message.quotedBody)
     ELSE IF message.hasQuotedMsg /\ word = "cancel"
       THEN handleReply("cancel", message.quotedBody)
     ELSE IF word = "done #" THEN <<Call("deliver", id)>>
     ELSE IF word = "cancel #" THEN <<Call("cancel", id)>>
     ELSE IF word = "/daily" THEN <<Call("daily", NoId)>>
     ELSE IF word = "/pending" THEN <<Call("pending", NoId)>>
     ELSE IF word = "/weekly" THEN <<Call("weekly", NoId)>>
     ELSE IF word = "/monthly" THEN <<Call("monthly", NoId)>>
     ELSE <<Call("help", NoId)>>

\* handleDeliveryGroupMessage: the calls made for a delivery-group message.
\* messageBody = message.body.toLowerCase().trim() is the word and the id
\* text in lower case; the if / else-if chain is followed in its order.
handleDeliveryGroupMessage(message) ==
  LET word == toLowerCaseWord(message.body.word)
      id == toLowerCase(message.body.id)
  IN IF message.hasQuotedMsg /\ word = "done"
       THEN handleReply("deliver", message.quotedBody)
     ELSE IF message.hasQuotedMsg /\ word = "cancel"
       THEN handleReply("cancel", message.quotedBody)
     ELSE IF word = "done #" THEN <<Call("deliver", id)>>
     ELSE IF word = "cancel #" THEN <<Call("cancel", id)>>
     ELSE IF word = "/daily" THEN <<Call("daily", NoId)>>
     ELSE IF word = "/pending" THEN <<Call("pending", NoId)>>
     ELSE IF word = "/weekly" THEN <<Call("weekly", NoId)>>
     ELSE IF word = "/monthly" THEN <<Call("monthly", NoId)>>
     ELSE IF word = "/help" THEN <<Call("help", NoId)>>
     ELSE <<>>

Reports == {"daily", "pending", "weekly", "monthly"}

\* handleSalesGroupMessage without the `if (contact.isMe) return`.
handleSalesGroupMessage_NoOwnCheck(isMe, parsed) ==
  IF parsed THEN <<Call("create", NoId)>> ELSE <<>>

\* handleSalesGroupMessage: the calls made for a sales-group message: none
\* for a message of the bot itself, createOrder when parseOrder returns a
\* draft.
handleSalesGroupMessage(isMe, parsed) ==
  IF isMe THEN <<>>
  ELSE IF parsed THEN <<Call("create", NoId)>>
  ELSE <<>>

\* handleDeliveryGroupMessage with its first statement,
\* `if (contact.isMe) return`.
handleDeliveryGroupMessageFrom(isMe, message) ==
  IF isMe THEN <<>> ELSE handleDeliveryGroupMessage(message)

\* handleMessage: the handler of the group of the chat is called; a message
\* of another chat is ignored.
handleMessage(m) ==
  IF m.chat = "SALES" THEN handleSalesGroupMessage(m.isMe, m.parsed)
  ELSE IF m.chat = "DELIVERY" THEN handleDeliveryGroupMessageFrom(m.isMe, m.message)
  ELSE <<>>

\* ---------------------------------------------------------------- steps
Goto(h, p) == pc' = [pc EXCEPT ![h] = p]

\* The handler of the message returns; its local variables are gone.
Return(h) ==
  /\ Goto(h, "idle")
  /\ cmd' = [cmd EXCEPT ![h] = "none"]
  /\ orderId' = [orderId EXCEPT ![h] = NoId]
  /\ senderName' = [senderName EXCEPT ![h] = NULL]
  /\ order' = [order EXCEPT ![h] = "unread"]
  /\ outMsg' = [outMsg EXCEPT ![h] = NoMsg]

StartSend(h, to, kind) ==
  /\ Goto(h, "send")
  /\ outMsg' = [outMsg EXCEPT ![h] = [to |-> to, kind |-> kind]]

\* The catch block of the operation in progress: the error reply of
\* markOrderAsDelivered / cancelOrder or of a report, nothing but a log line
\* for sendHelpMessage, or for a sales message the rejection when
\* message.body.length > 20.
Catch(h) ==
  IF cmd[h] = "create"
    THEN \E isLong \in BOOLEAN :
           IF isLong
             THEN /\ Goto(h, "sendCatch")
                  /\ outMsg' = [outMsg EXCEPT ![h] = [to |-> "SALES", kind |-> "Rejection"]]
                  /\ UNCHANGED <<cmd, orderId, senderName, order>>
             ELSE Return(h)
  ELSE IF cmd[h] = "help"
    THEN Return(h)
    ELSE /\ Goto(h, "sendCatch")
         /\ outMsg' = [outMsg EXCEPT ![h] =
              [to |-> "DELIVERY",
               kind |-> IF cmd[h] = "report" THEN "ReportError" ELSE "Error"]]
         /\ UNCHANGED <<cmd, orderId, senderName, order>>

\* handleMessage for a sales-group message, up to the call of createOrder.
ReceiveSales(h) ==
  /\ pc[h] = "idle"
  /\ \E who \in Senders, isMe \in BOOLEAN, parsed \in BOOLEAN :
       IF handleSalesGroupMessage(isMe, parsed) # <<>>
         THEN /\ cmd' = [cmd EXCEPT ![h] = "create"]
              /\ senderName' = [senderName EXCEPT ![h] = who]
              /\ Goto(h, "insertOrder")
         ELSE UNCHANGED <<pc, cmd, senderName>>
  /\ UNCHANGED <<orders, history, now, orderId, order, outMsg>>
  /\ UNCHANGED aux

\* The delivery-group messages that the handlers receive: one of each form,
\* about the stored orders.
ReceivedMessages ==
  {m \in DeliveryMessages(OrderIds, 1) :
     m.body.word \in {"done", "cancel", "done #", "cancel #", "/daily", "/help",
                      "thanks"}}

\* handleMessage for a delivery-group message, up to the first query or send
\* of the operation that handleDeliveryGroupMessage calls. The four report
\* senders have the same steps and are followed as one; senderName is kept
\* for the operations it is passed to.
ReceiveDelivery(h) ==
  /\ pc[h] = "idle"
  /\ \E isMe \in BOOLEAN, m \in ReceivedMessages :
       LET calls == handleDeliveryGroupMessageFrom(isMe, m) IN
       IF calls = <<>>
         THEN UNCHANGED <<pc, cmd, orderId, senderName, outMsg>>
         ELSE /\ orderId' = [orderId EXCEPT ![h] = calls[1].orderId]
              /\ IF calls[1].cmd \in {"deliver", "cancel"}
                   THEN /\ cmd' = [cmd EXCEPT ![h] = calls[1].cmd]
                        /\ \E who \in Senders :
                             senderName' = [senderName EXCEPT ![h] = who]
                        /\ Goto(h, "getOrder")
                        /\ UNCHANGED outMsg
                   ELSE IF calls[1].cmd \in Reports
                     THEN /\ cmd' = [cmd EXCEPT ![h] = "report"]
                          /\ Goto(h, "report")
                          /\ UNCHANGED <<senderName, outMsg>>
                     ELSE /\ cmd' = [cmd EXCEPT ![h] = "help"]
                          /\ StartSend(h, "DELIVERY", "Help")
                          /\ UNCHANGED senderName
  /\ UNCHANGED <<orders, history, now, order>>
  /\ UNCHANGED aux

\* sendDailyReport / sendPendingOrders / sendWeeklyReport / sendMonthlyReport:
\* the query of the report, then the send of the formatted report.
Report(h) ==
  /\ pc[h] = "report"
  /\ \E ok \in BOOLEAN :
       IF ok THEN /\ StartSend(h, "DELIVERY", "Report")
                  /\ UNCHANGED <<cmd, orderId, senderName, order>>
             ELSE Catch(h)
  /\ UNCHANGED <<orders, history, now>>
  /\ UNCHANGED aux

\* CREATE TABLE orders without UNIQUE on order_id: every INSERT is accepted.
orderIdUnique_NotEnforced(id) == TRUE

\* CREATE TABLE orders: `order_id VARCHAR(50) UNIQUE NOT NULL`; an INSERT is
\* accepted when no row has its order_id.
orderIdUnique(id) == id \notin DOMAIN orders

\* createOrder: generateOrderId and the INSERT INTO orders; a rejected INSERT
\* throws like any other failed query.
InsertOrder(h) ==
  /\ pc[h] = "insertOrder"
  /\ \E n \in Suffixes, ok \in BOOLEAN :
       LET id == generateOrderId(n) IN
       IF ok /\ orderIdUnique(id)
         THEN /\ orders' = (id :> NewOrderRow(senderName[h])) @@ orders
              /\ orderId' = [orderId EXCEPT ![h] = id]
              /\ Goto(h, "createHistory")
              /\ UNCHANGED <<cmd, senderName, order, outMsg>>
         ELSE /\ UNCHANGED orders
              /\ Catch(h)
  /\ UNCHANGED <<history, now>>
  /\ UNCHANGED aux

\* addOrderHistory keeping one row per order (the row of the order is replaced).
addOrderHistory_Upsert(id, status, changedBy, notes, ok) ==
  history' = IF ok
               THEN Append(SelectSeq(history, LAMBDA e : e.order_id # id),
                           HistoryRow(id, status, changedBy, notes))
               ELSE history

\* addOrderHistory: the INSERT INTO order_history; an error is logged only.
addOrderHistory(id, status, changedBy, notes, ok) ==
  history' = IF ok THEN Append(history, HistoryRow(id, status, changedBy, notes))
                   ELSE history

\* createOrder: the history entry of the creation, then the confirmations.
CreateHistory(h) ==
  /\ pc[h] = "createHistory"
  /\ \E ok \in BOOLEAN :
       addOrderHistory(orderId[h], "pending", senderName[h], "Order created", ok)
  /\ StartSend(h, "DELIVERY", "OrderConfirmation")
  /\ UNCHANGED <<orders, now, cmd, orderId, senderName, order>>
  /\ UNCHANGED aux

\* markOrderAsDelivered / cancelOrder: getOrderById and the checks on it.
GetOrder(h) ==
  /\ pc[h] = "getOrder"
  /\ \E ok \in BOOLEAN :
       IF ok
         THEN LET st == getOrderById(orderId[h])
                  out == IF cmd[h] = "deliver" THEN markOrderAsDeliveredCheck(st)
                                               ELSE cancelOrderCheck(st)
              IN /\ order' = [order EXCEPT ![h] = st]
                 /\ IF out = "proceed"
                      THEN Goto(h, "update") /\ UNCHANGED outMsg
                      ELSE StartSend(h, "DELIVERY", out)
                 /\ UNCHANGED <<cmd, orderId, senderName>>
         ELSE Catch(h)
  /\ UNCHANGED <<orders, history, now>>
  /\ UNCHANGED aux

\* updateOrderStatus: the UPDATE ... WHERE order_id = $n RETURNING *.
Update(h) ==
  /\ pc[h] = "update"
  /\ now < MaxTime
  /\ \E ok \in BOOLEAN :
       IF ok /\ orderId[h] \in DOMAIN orders
         THEN /\ orders' = [orders EXCEPT ![orderId[h]] =
                   updateOrderStatus(@, IF cmd[h] = "deliver" THEN "delivered" ELSE "cancelled",
                                     IF cmd[h] = "deliver" THEN senderName[h] ELSE NULL, now)]
              /\ now' = now + 1
              /\ Goto(h, "history")
              /\ UNCHANGED <<cmd, orderId, senderName, order, outMsg>>
         ELSE /\ UNCHANGED <<orders, now>>
              /\ Catch(h)
  /\ UNCHANGED history
  /\ UNCHANGED aux

\* `Status changed to ${status}`
StatusChangedTo(status) ==
  IF status = "delivered" THEN "Status changed to delivered"
  ELSE IF status = "cancelled" THEN "Status changed to cancelled"
  ELSE "Status changed to pending"

\* updateOrderStatus: the history entry of the change, then the success reply.
History(h) ==
  /\ pc[h] = "history"
  /\ LET status == IF cmd[h] = "deliver" THEN "delivered" ELSE "cancelled" IN
     /\ \E ok \in BOOLEAN :
          addOrderHistory(orderId[h], status, senderName[h], StatusChangedTo(status), ok)
     /\ StartSend(h, "DELIVERY", IF cmd[h] = "deliver" THEN "Delivered" ELSE "Cancelled")
  /\ UNCHANGED <<orders, now, cmd, orderId, senderName, order>>
  /\ UNCHANGED aux

\* sendToDeliveryGroup / sendToSalesGroup inside the try block: delivered, or
\* failed after the retries, which throws into the catch block.
Send(h) ==
  /\ pc[h] = "send"
  /\ \E ok \in BOOLEAN :
       IF ok
         THEN IF outMsg[h].kind = "OrderConfirmation"
                THEN /\ outMsg' = [outMsg EXCEPT ![h] = [to |-> "SALES", kind |-> "SalesConfirmation"]]
                     /\ UNCHANGED <<pc, cmd, orderId, senderName, order>>
                ELSE Return(h)
         ELSE Catch(h)
  /\ UNCHANGED <<orders, history, now>>
  /\ UNCHANGED aux

\* The handler whose try/catch encloses the catch block of the operation that
\* handles a message of kind c: handleMessage for a sales message,
\* handleDeliveryGroupMessage (or handleReplyCompletion /
\* handleReplyCancellation inside it) for a delivery command; with the
\* sales messages left without one.
EnclosingCatch_SalesUnguarded(c) ==
  IF c = "create" THEN "none" ELSE "handleDeliveryGroupMessage"

\* The handler whose try/catch encloses the catch block of the operation that
\* handles a message of kind c: handleMessage for a sales message,
\* handleDeliveryGroupMessage (or handleReplyCompletion /
\* handleReplyCancellation inside it) for a delivery command.
EnclosingCatch(c) ==
  IF c = "create" THEN "handleMessage" ELSE "handleDeliveryGroupMessage"

\* An error thrown out of a catch block: it reaches the enclosing try/catch,
\* or leaves handleMessage as the rejection of its promise. The variables of
\* the operation that threw are out of scope there.
Throw(h) ==
  /\ IF EnclosingCatch(cmd[h]) = "none" THEN Goto(h, "unhandled")
                                        ELSE Goto(h, "caught")
  /\ orderId' = [orderId EXCEPT ![h] = NoId]
  /\ senderName' = [senderName EXCEPT ![h] = NULL]
  /\ order' = [order EXCEPT ![h] = "unread"]
  /\ outMsg' = [outMsg EXCEPT ![h] = NoMsg]
  /\ UNCHANGED cmd

\* The send made by a catch block: delivered, and the handler ends, or failed
\* after the retries, which throws out of the catch block.
SendCatch(h) ==
  /\ pc[h] = "sendCatch"
  /\ \E ok \in BOOLEAN : IF ok THEN Return(h) ELSE Throw(h)
  /\ UNCHANGED <<orders, history, now>>
  /\ UNCHANGED aux

\* The enclosing catch block: logger.error, and the handler ends.
Caught(h) ==
  /\ pc[h] = "caught"
  /\ Return(h)
  /\ UNCHANGED <<orders, history, now>>
  /\ UNCHANGED aux

Next ==
  \/ \E h \in Handlers : ReceiveSales(h)
  \/ \E h \in Handlers : ReceiveDelivery(h)
  \/ \E h \in Handlers : InsertOrder(h)
  \/ \E h \in Handlers : CreateHistory(h)
  \/ \E h \in Handlers : GetOrder(h)
  \/ \E h \in Handlers : Report(h)
  \/ \E h \in Handlers : Update(h)
  \/ \E h \in Handlers : History(h)
  \/ \E h \in Handlers : Send(h)
  \/ \E h \in Handlers : SendCatch(h)
  \/ \E h \in Handlers : Caught(h)

Spec == Init /\ [][Next]_vars

\* ------------------------------------- the command interpreter on its own
\* A delivery-group message, not from the bot itself, is given to
\* handleDeliveryGroupMessage.
InitCmd ==
  /\ BotIdle
  /\ TransportIdle
  /\ ParserIdle
  /\ PhoneIdle
  /\ DispatchIdle
  /\ Connected
  /\ received \in DeliveryMessages(QuotedIds, MaxRefs)
  /\ called = NotCalled

\* handleDeliveryGroupMessage runs through its if / else-if chain.
Interpret ==
  /\ called = NotCalled
  /\ called' = handleDeliveryGroupMessage(received)
  /\ UNCHANGED <<received, botVars, sendVars, parseVars, phoneVars, msgVars, connVars>>

NextCmd == Interpret

SpecCmd == InitCmd /\ [][NextCmd]_vars

\* ------------------------------------------------ one send on its own
\* config.BOT
MAX_RETRY_ATTEMPTS == 3

RETRY_DELAY == 2000

\* The messages the bot sends, each to its group.
SentMessages ==
  [to : {"SALES"}, kind : {"SalesConfirmation", "Rejection"}]
    \cup [to : {"DELIVERY"},
          kind : {"OrderConfirmation", "NotFound", "AlreadyDelivered",
                  "AlreadyCancelled", "InvalidTransition", "Delivered",
                  "Cancelled", "Error", "Help", "Report", "ReportError"}]

\* sendToSalesGroup / sendToDeliveryGroup is called with a message.
InitSend ==
  /\ BotIdle
  /\ InterpreterIdle
  /\ ParserIdle
  /\ PhoneIdle
  /\ DispatchIdle
  /\ Connected
  /\ sendMsg \in SentMessages
  /\ sendPc = "send"
  /\ retry = 0
  /\ results = <<>>
  /\ slept = <<>>

\* sendToSalesGroup / sendToDeliveryGroup: the first client.sendMessage; its
\* failure is logged and retryOperation is called with the default retries.
SendMessage ==
  /\ sendPc = "send"
  /\ \E ok \in BOOLEAN :
       /\ results' = Append(results, ok)
       /\ sendPc' = IF ok THEN "returned" ELSE "retry"
  /\ retry' = 0
  /\ UNCHANGED <<sendMsg, slept, botVars, cmdVars, parseVars, phoneVars, msgVars, connVars>>

\* retryOperation with the throw moved one round later.
lastRetry_OffByOne(i, retries) == i = retries

\* retryOperation: `if (i === retries - 1) throw error`.
lastRetry(i, retries) == i = retries - 1

\* retryOperation: one round of the loop `for (let i = 0; i < retries; i++)`:
\* operation() succeeds and the function returns, or it fails and the error
\* is thrown in the last round and followed by a sleep in the others.
RetryOperation ==
  /\ sendPc = "retry"
  /\ IF retry < MAX_RETRY_ATTEMPTS
       THEN \E ok \in BOOLEAN :
              /\ results' = Append(results, ok)
              /\ sendPc' = IF ok THEN "returned"
                           ELSE IF lastRetry(retry, MAX_RETRY_ATTEMPTS) THEN "thrown"
                           ELSE "sleep"
       ELSE /\ sendPc' = "returned"
            /\ UNCHANGED results
  /\ UNCHANGED <<sendMsg, retry, slept, botVars, cmdVars, parseVars, phoneVars, msgVars, connVars>>

\* retryOperation: `await Helpers.sleep(config.BOT.RETRY_DELAY * (i + 1))`,
\* then i++.
Sleep ==
  /\ sendPc = "sleep"
  /\ slept' = Append(slept, RETRY_DELAY * (retry + 1))
  /\ retry' = retry + 1
  /\ sendPc' = "retry"
  /\ UNCHANGED <<sendMsg, results, botVars, cmdVars, parseVars, phoneVars, msgVars, connVars>>

NextSend == SendMessage \/ RetryOperation \/ Sleep

\* Every client.sendMessage call settles and every timer of Helpers.sleep
\* fires, so a step that is possible is taken.
SpecSend == InitSend /\ [][NextSend]_vars /\ WF_vars(NextSend)

\* ------------------------------------- a sales-group message on its own
\* handleSalesGroupMessage: `message.body.length > 20`.
MinOrderLength == 20

\* The lines of the messages without labels that are drawn.
SampleLines ==
  { <<"ada", "ada">>, <<"08012345678">>, <<"12", "street">>,
    <<"rice", "12", "plates">>, <<"today">>, <<"tomorrow">>, <<"Name:", "ada">> }

\* The most lines a message without labels has.
MaxLines == 4

\* The messages of up to MaxLines of the sample lines.
UnlabeledBodies == UNION {[1..n -> SampleLines] : n \in 0..MaxLines}

Labels == {"name:", "phone:", "address:", "item:"}

\* The values written after the labels: plain text, digits, text with a
\* colon inside or in front, and text that contains "phone".
LabeledValues ==
  { <<"ada">>, <<"08012345678">>, <<"rice", ":", "12">>, <<"iphone">>,
    <<":", "street">> }

\* The messages made of one line for each label, in every order, each label
\* followed by one of the values.
LabeledBodies ==
  {[k \in 1..4 |-> <<l[k]>> \o v[l[k]]] :
     l \in {f \in [1..4 -> Labels] : \A a, b \in 1..4 : a # b => f[a] # f[b]},
     v \in [Labels -> LabeledValues]}

\* A sales-group message, not from the bot itself, is given to
\* handleSalesGroupMessage.
InitParse ==
  /\ BotIdle
  /\ InterpreterIdle
  /\ TransportIdle
  /\ PhoneIdle
  /\ DispatchIdle
  /\ Connected
  /\ salesBody \in UnlabeledBodies \cup LabeledBodies
  /\ labeledPass = NoFields
  /\ unlabeledPass = NoFields
  /\ poolLines = <<>>
  /\ orderData = <<>>
  /\ salesPc = "parseOrder"

\* handleSalesGroupMessage: OrderParser.parseOrder(message.body, senderName),
\* followed statement by statement with its locals labeledData,
\* unlabeledData and, inside parseUnlabeledFormat, remainingLines.
ParseOrder ==
  /\ salesPc = "parseOrder"
  /\ labeledPass' = firstPass(splitLines(salesBody))
  /\ unlabeledPass' = IF runsSecondPass(splitLines(salesBody), labeledPass')
                        THEN parseUnlabeledFormat(splitLines(salesBody))
                        ELSE NoFields
  /\ poolLines' = IF runsSecondPass(splitLines(salesBody), labeledPass')
                    THEN remainingOf(splitLines(salesBody))
                    ELSE <<>>
  /\ orderData' = returnDraft(splitLines(salesBody), labeledPass', unlabeledPass', 1)
  /\ salesPc' = "parsed"
  /\ UNCHANGED <<salesBody, botVars, cmdVars, sendVars, phoneVars, msgVars, connVars>>

\* handleSalesGroupMessage: `if (orderData)`: createOrder is called for a
\* draft; for null the block is skipped and the handler returns, nothing has
\* thrown and the catch block with the rejection is not entered.
IfOrderData ==
  /\ salesPc = "parsed"
  /\ salesPc' = IF orderData # <<>> THEN "createOrder" ELSE "returned"
  /\ UNCHANGED <<salesBody, labeledPass, unlabeledPass, poolLines, orderData>>
  /\ UNCHANGED <<botVars, cmdVars, sendVars, phoneVars, msgVars, connVars>>

NextParse == ParseOrder \/ IfOrderData

SpecParse == InitParse /\ [][NextParse]_vars

\* ------------------------------------------- one createOrder on its own
\* The characters of the phone numbers that are drawn.
PhoneChars == {"0", "2", "3", "4", "8", "-", "+"}

\* The longest phone number that is drawn from PhoneChars.
MaxPhoneLen == 4

\* A number as dialled inside the country, and the same one with the country
\* code, bare and as it is usually written.
LocalNumber == <<"0", "8", "0", "1", "2", "3", "4", "5", "6", "7", "8">>

InternationalNumber ==
  <<"2", "3", "4", "8", "0", "1", "2", "3", "4", "5", "6", "7", "8">>

WrittenNumber ==
  <<"+", "2", "3", "4", "-", "8", "0", "1", "-", "2", "3", "4", "-",
    "5", "6", "7", "8">>

\* orderData.phoneNumber: a draft has a non-empty phone number, which is the
\* text of a line or of a labeled value, whatever its characters.
RawPhones ==
  UNION {[1..n -> PhoneChars] : n \in 1..MaxPhoneLen}
    \cup {LocalNumber, InternationalNumber, WrittenNumber}

\* createOrder is called with a draft.
InitPhone ==
  /\ BotIdle
  /\ InterpreterIdle
  /\ TransportIdle
  /\ ParserIdle
  /\ DispatchIdle
  /\ Connected
  /\ rawPhone \in RawPhones
  /\ storedPhone = <<>>
  /\ phonePc = "createOrder"

\* createOrder: the values of the INSERT INTO orders, of which phone_number
\* is Helpers.formatPhoneNumber(orderData.phoneNumber).
CreateOrderValues ==
  /\ phonePc = "createOrder"
  /\ storedPhone' = formatPhoneNumber(rawPhone)
  /\ phonePc' = "insertOrder"
  /\ UNCHANGED <<rawPhone, botVars, cmdVars, sendVars, parseVars, msgVars, connVars>>

\* Helpers.formatPhoneNumber called on a number that it has formatted.
FormatAgain ==
  /\ phonePc = "insertOrder"
  /\ rawPhone' = storedPhone
  /\ storedPhone' = formatPhoneNumber(storedPhone)
  /\ phonePc' = "formatted"
  /\ UNCHANGED <<botVars, cmdVars, sendVars, parseVars, msgVars, connVars>>

NextPhone == CreateOrderValues \/ FormatAgain

SpecPhone == InitPhone /\ [][NextPhone]_vars

\* ------------------------------------------- handleMessage on its own
\* The messages that the client delivers: of the sales group, with or
\* without a draft in them, of the delivery group, and of another chat; each
\* from the bot itself or from somebody else.
InboundMessages ==
  [chat : {"SALES", "OTHER"}, isMe : BOOLEAN, parsed : BOOLEAN,
   message : {NoMessage}]
    \cup [chat : {"DELIVERY"}, isMe : BOOLEAN, parsed : {FALSE},
          message : ReceivedMessages]

\* client.on('message'): handleMessage is called with a message.
InitDispatch ==
  /\ BotIdle
  /\ InterpreterIdle
  /\ TransportIdle
  /\ ParserIdle
  /\ PhoneIdle
  /\ Connected
  /\ inbound \in InboundMessages
  /\ handled = NotCalled

\* handleMessage: getChat and getContact, then the handler of the group; a
\* failure of getChat or getContact is logged and nothing is called.
HandleMessage ==
  /\ handled = NotCalled
  /\ \E ok \in BOOLEAN :
       handled' = IF ok THEN handleMessage(inbound) ELSE <<>>
  /\ UNCHANGED <<inbound, botVars, cmdVars, sendVars, parseVars, phoneVars, connVars>>

NextDispatch == HandleMessage

SpecDispatch == InitDispatch /\ [][NextDispatch]_vars

\* ---------------------------------------------- reconnection on its own
\* The most setTimeout callbacks that are pending at a time.
MaxTimers == 3

\* handleReconnection with one attempt more.
canRetry_OneMore(count, maxRetries) == count <= maxRetries

\* handleReconnection: `if (this.retryCount < this.maxRetries)`.
canRetry(count, maxRetries) == count < maxRetries

\* handleReconnection, called while the callbacks `pending` are waiting:
\* retryCount++ and setTimeout(..., RETRY_DELAY * this.retryCount), or the
\* log line that the attempts are used up.
handleReconnection(pending) ==
  IF canRetry(retryCount, MAX_RETRY_ATTEMPTS)
    THEN /\ retryCount' = retryCount + 1
         /\ timers' = Append(pending, RETRY_DELAY * (retryCount + 1))
         /\ scheduled' = Append(scheduled, RETRY_DELAY * (retryCount + 1))
    ELSE /\ timers' = pending
         /\ UNCHANGED <<retryCount, scheduled>>

\* The sequence without its element k.
removeAt(seq, k) == SubSeq(seq, 1, k - 1) \o SubSeq(seq, k + 1, Len(seq))

\* The service has started and the client is ready.
InitReconnect ==
  /\ BotIdle
  /\ InterpreterIdle
  /\ TransportIdle
  /\ ParserIdle
  /\ PhoneIdle
  /\ DispatchIdle
  /\ Connected

\* client.on('disconnected'): handleReconnection is called.
Disconnected ==
  /\ Len(timers) < MaxTimers
  /\ handleReconnection(timers)
  /\ UNCHANGED readyDue
  /\ UNCHANGED <<botVars, cmdVars, sendVars, parseVars, phoneVars, msgVars>>

\* A setTimeout callback runs: client.initialize() succeeds, and the client
\* will emit 'ready', or it fails and handleReconnection is called again.
TimerFires ==
  /\ \E k \in 1..Len(timers), ok \in BOOLEAN :
       IF ok
         THEN /\ readyDue' = TRUE
              /\ timers' = removeAt(timers, k)
              /\ UNCHANGED <<retryCount, scheduled>>
         ELSE /\ handleReconnection(removeAt(timers, k))
              /\ UNCHANGED readyDue
  /\ UNCHANGED <<botVars, cmdVars, sendVars, parseVars, phoneVars, msgVars>>

\* client.on('ready'): this.retryCount = 0.
Ready ==
  /\ readyDue
  /\ readyDue' = FALSE
  /\ retryCount' = 0
  /\ scheduled' = <<>>
  /\ UNCHANGED timers
  /\ UNCHANGED <<botVars, cmdVars, sendVars, parseVars, phoneVars, msgVars>>

NextReconnect == Disconnected \/ TimerFires \/ Ready

SpecReconnect == InitReconnect /\ [][NextReconnect]_vars

TypeOK ==
  /\ DOMAIN orders \subseteq OrderIds
  /\ \A id \in DOMAIN orders :
       /\ orders[id].status \in {"pending", "delivered", "cancelled"}
       /\ orders[id].delivered_at \in Times \cup {NULL}
       /\ orders[id].cancelled_at \in Times \cup {NULL}
  /\ now \in Times

\* ------------------------------------------------------------ properties
Terminal == {"delivered", "cancelled"}

\* A step taken by handler h.
StepBy(h) ==
  <<pc[h], cmd[h], orderId[h], senderName[h], order[h], outMsg[h]>>' #
  <<pc[h], cmd[h], orderId[h], senderName[h], order[h], outMsg[h]>>

\* The UPDATE of handler h succeeds in this step.
Updates(h) == pc[h] = "update" /\ pc'[h] = "history"

\* The history insert of updateOrderStatus of handler h is made in this step.
LogsChange(h) == pc[h] = "history" /\ pc'[h] # "history"

HasEntry(id, status) ==
  \E i \in 1..Len(history) :
    history[i].order_id = id /\ history[i].status = status

EntriesOf(id) == {i \in 1..Len(history) : history[i].order_id = id}

\* C1: under every interleaving of delivery-group commands, at most one
\* terminal transition succeeds per order: an UPDATE to delivered or cancelled
\* is only ever applied to an order that is still pending, so every other
\* command performs no write and a terminal status is never overwritten.
C1_AtMostOneTerminalTransition ==
  [][\A h \in Handlers :
       Updates(h) => /\ orderId[h] \in DOMAIN orders
                     /\ orders[orderId[h]].status = "pending"]_vars

\* C2: status transitions are monotonic: a delivered or cancelled order never
\* changes status again, and the only changes of status are pending to
\* delivered and pending to cancelled.
C2_MonotonicStatus ==
  [][\A id \in DOMAIN orders :
       orders'[id].status # orders[id].status
         => /\ orders[id].status = "pending"
            /\ orders'[id].status \in Terminal]_vars

\* C3: delivered_at and cancelled_at are never both set, and each of them,
\* once set, is never written again.
C3_TimestampsExclusiveAndWrittenOnce ==
  /\ [](\A id \in DOMAIN orders :
          ~(orders[id].delivered_at # NULL /\ orders[id].cancelled_at # NULL))
  /\ [][\A h \in Handlers :
          Updates(h) =>
            /\ cmd[h] = "deliver" => orders[orderId[h]].delivered_at = NULL
            /\ cmd[h] = "cancel" => orders[orderId[h]].cancelled_at = NULL]_vars

\* C4: markOrderAsDelivered on a pending order sets status = delivered,
\* delivery_person = the given person, delivered_at = now, leaves cancelled_at
\* unset, and appends exactly one history entry (delivered, changed_by = the
\* delivery person).
C4_MarkDeliveredEffect ==
  [][\A h \in Handlers :
       (cmd[h] = "deliver" /\ order[h] = "pending") =>
         /\ Updates(h) =>
              /\ orders'[orderId[h]].status = "delivered"
              /\ orders'[orderId[h]].delivery_person = senderName[h]
              /\ orders'[orderId[h]].delivered_at = now
              /\ orders'[orderId[h]].cancelled_at = NULL
              /\ history' = history
         /\ LogsChange(h) =>
              /\ history' = Append(history,
                   HistoryRow(orderId[h], "delivered", senderName[h], StatusChangedTo("delivered")))
              /\ orders' = orders]_vars

\* C5: markOrderAsDelivered on an order read as delivered or cancelled changes
\* neither the orders nor the history; the reply is AlreadyDelivered for a
\* delivered order and InvalidTransition for a cancelled one.
C5_MarkDeliveredOnTerminal ==
  [][\A h \in Handlers :
       cmd[h] = "deliver" =>
         /\ (pc[h] = "getOrder" /\ order'[h] \in Terminal) =>
              /\ pc'[h] = "send"
              /\ outMsg'[h] = [to |-> "DELIVERY",
                               kind |-> IF order'[h] = "delivered"
                                          THEN "AlreadyDelivered"
                                          ELSE "InvalidTransition"]
         /\ (StepBy(h) /\ (order[h] \in Terminal \/ order'[h] \in Terminal)) =>
              /\ orders' = orders
              /\ history' = history
              /\ ~Updates(h)]_vars

\* C5 witness: a deliver command has read a cancelled order and is replying
\* InvalidTransition; the order is still cancelled.
C5_Witness ==
  \E h \in Handlers :
    /\ cmd[h] = "deliver" /\ order[h] = "cancelled"
    /\ pc[h] = "send" /\ outMsg[h].kind = "InvalidTransition"
    /\ orders[orderId[h]].status = "cancelled"

\* C6: cancelOrder on a pending order sets status = cancelled and
\* cancelled_at = now, leaves delivered_at and delivery_person unset, and
\* appends exactly one history entry (cancelled, changed_by = cancelledBy).
C6_CancelEffect ==
  [][\A h \in Handlers :
       (cmd[h] = "cancel" /\ order[h] = "pending") =>
         /\ Updates(h) =>
              /\ orders'[orderId[h]].status = "cancelled"
              /\ orders'[orderId[h]].cancelled_at = now
              /\ orders'[orderId[h]].delivered_at = NULL
              /\ orders'[orderId[h]].delivery_person = NULL
              /\ history' = history
         /\ LogsChange(h) =>
              /\ history' = Append(history,
                   HistoryRow(orderId[h], "cancelled", senderName[h], StatusChangedTo("cancelled")))
              /\ orders' = orders]_vars

\* C7: cancelOrder on an order read as cancelled or delivered changes neither
\* the orders nor the history; the reply is AlreadyCancelled for a cancelled
\* order and InvalidTransition for a delivered one.
C7_CancelOnTerminal ==
  [][\A h \in Handlers :
       cmd[h] = "cancel" =>
         /\ (pc[h] = "getOrder" /\ order'[h] \in Terminal) =>
              /\ pc'[h] = "send"
              /\ outMsg'[h] = [to |-> "DELIVERY",
                               kind |-> IF order'[h] = "cancelled"
                                          THEN "AlreadyCancelled"
                                          ELSE "InvalidTransition"]
         /\ (StepBy(h) /\ (order[h] \in Terminal \/ order'[h] \in Terminal)) =>
              /\ orders' = orders
              /\ history' = history
              /\ ~Updates(h)]_vars

\* C7 witness: a cancel command has read a delivered order and is replying
\* InvalidTransition; the order is still delivered.
C7_Witness ==
  \E h \in Handlers :
    /\ cmd[h] = "cancel" /\ order[h] = "delivered"
    /\ pc[h] = "send" /\ outMsg[h].kind = "InvalidTransition"
    /\ orders[orderId[h]].status = "delivered"

\* C8: a deliver or cancel command whose order id matches no stored order
\* replies NotFound, and no step of the command creates or changes an order
\* or appends a history entry.
C8_NotFound ==
  [][\A h \in Handlers :
       cmd[h] \in {"deliver", "cancel"} =>
         /\ (pc[h] = "getOrder" /\ order'[h] = NoOrder) =>
              /\ orderId[h] \notin DOMAIN orders
              /\ pc'[h] = "send"
              /\ outMsg'[h] = [to |-> "DELIVERY", kind |-> "NotFound"]
         /\ (StepBy(h) /\ (order[h] = NoOrder \/ order'[h] = NoOrder)) =>
              /\ orders' = orders
              /\ history' = history]_vars

\* C8 witness: a command naming an id that is not stored, while an order is
\* stored, is replying NotFound.
C8_Witness ==
  \E h \in Handlers :
    /\ cmd[h] \in {"deliver", "cancel"} /\ order[h] = NoOrder
    /\ pc[h] = "send" /\ outMsg[h].kind = "NotFound"
    /\ orderId[h] \notin DOMAIN orders
    /\ DOMAIN orders # {}

\* C9: a successful createOrder yields an order with status pending and
\* delivery_person, delivered_at, cancelled_at unset, and exactly one history
\* entry for its order id (pending, changed_by = addedBy, "Order created").
C9_CreateOrderEffect ==
  [][\A h \in Handlers :
       cmd[h] = "create" =>
         /\ (pc[h] = "insertOrder" /\ pc'[h] = "createHistory") =>
              /\ orderId'[h] \notin DOMAIN orders
              /\ orders'[orderId'[h]] = NewOrderRow(senderName[h])
              /\ orders'[orderId'[h]].status = "pending"
              /\ orders'[orderId'[h]].delivery_person = NULL
              /\ orders'[orderId'[h]].delivered_at = NULL
              /\ orders'[orderId'[h]].cancelled_at = NULL
         /\ (pc[h] = "createHistory" /\ pc'[h] # "createHistory") =>
              /\ history' = Append(history,
                   HistoryRow(orderId[h], "pending", senderName[h], "Order created"))
              /\ Cardinality({i \in 1..Len(history') :
                               history'[i].order_id = orderId[h]}) = 1]_vars

\* C10: audit completeness: once the operation that created or changed an
\* order has made its history insert, the history holds an entry for the
\* creation of the order and an entry with the order's current status.
C10_AuditComplete ==
  \A id \in DOMAIN orders :
    (\A h \in Handlers :
       ~(orderId[h] = id /\ pc[h] \in {"createHistory", "history"}))
      => /\ HasEntry(id, "pending")
         /\ HasEntry(id, orders[id].status)

\* C11: the history is append-only: every step leaves the existing entries
\* unchanged and in place (the history before the step is a prefix of the
\* history after it), so entries stay in the order of their creation.
C11_HistoryAppendOnly ==
  [][/\ Len(history') >= Len(history)
     /\ SubSeq(history', 1, Len(history)) = history]_vars

\* C11 witness: an entry has been appended after an earlier one of the same
\* order, which is still in place before it.
C11_Witness ==
  /\ Len(history) >= 2
  /\ history[1].order_id = history[2].order_id
  /\ history[1].status = "pending"
  /\ history[2].status \in Terminal

\* The write made by handler h in this step failed: the INSERT INTO orders,
\* the UPDATE, or the INSERT INTO order_history left its table unchanged.
WriteFails(h) ==
  \/ pc[h] = "insertOrder" /\ pc'[h] # "insertOrder" /\ orders' = orders
  \/ pc[h] = "update" /\ pc'[h] # "update" /\ orders' = orders
  \/ pc[h] \in {"createHistory", "history"} /\ pc'[h] # pc[h] /\ history' = history

\* Handler h continues on the success path of createOrder / updateOrderStatus.
ContinuesAsSuccess(h) ==
  \/ pc'[h] \in {"createHistory", "history"}
  \/ pc'[h] = "send" /\ outMsg'[h].kind \in {"OrderConfirmation", "Delivered", "Cancelled"}

\* C12: whenever a persistence write fails, the failure reaches the caller of
\* createOrder / updateOrderStatus as an error: the caller never continues as
\* after a successful write.
C12_WriteFailurePropagates ==
  [][\A h \in Handlers : WriteFails(h) => ~ContinuesAsSuccess(h)]_vars

\* Handler h starts sending the error reply of markOrderAsDelivered / cancelOrder.
StartsErrorReply(h) ==
  /\ cmd[h] \in {"deliver", "cancel"}
  /\ pc[h] # "sendCatch" /\ pc'[h] = "sendCatch"
  /\ outMsg'[h].kind = "Error"

\* Handler h has applied its UPDATE to the order.
HasUpdated(h) ==
  \/ pc[h] = "history"
  \/ pc[h] = "send" /\ outMsg[h].kind \in {"Delivered", "Cancelled"}

\* C13: a failed transition leaves no partial state: a deliver or cancel
\* command that ends with the error reply has not changed the order or its
\* history, also when what failed is the send of the success reply.
C13_ErrorReplyMeansNoChange ==
  [][\A h \in Handlers :
       StartsErrorReply(h) =>
         /\ ~HasUpdated(h)
         /\ orders' = orders
         /\ history' = history]_vars

\* C19: no error escapes the handler of a message: no handler ever ends with
\* an error that no try/catch has caught, and a handler whose error reached
\* the enclosing catch block ends there and is free for the next message.
C19_NoErrorEscapes ==
  /\ [](\A h \in Handlers : pc[h] # "unhandled")
  /\ [][\A h \in Handlers :
          (pc[h] = "caught" /\ StepBy(h)) => pc'[h] = "idle"]_vars

\* C19 witness: after a failure in createOrder or in a confirmation, the send
\* of the rejection to the sales group has failed too, and the error is in the
\* catch block of handleMessage.
C19_Witness ==
  \E h \in Handlers : pc[h] = "caught" /\ cmd[h] = "create"

\* handleDeliveryGroupMessage has run for the received message.
Interpreted == called # NotCalled

\* The id of the leftmost "Order #<token>" occurrence of a quoted body.
FirstOrderRef(q) ==
  IF \E i \in 1..Len(q) : q[i] # NoId
    THEN q[CHOOSE i \in 1..Len(q) :
             q[i] # NoId /\ \A j \in 1..(i - 1) : q[j] = NoId]
    ELSE NoId

\* The received message is a reply whose trimmed, lower-cased body is word.
IsReply(word) ==
  received.hasQuotedMsg /\ toLowerCaseWord(received.body.word) = word

\* C14: a reply whose trimmed, lower-cased body is exactly "done" ("cancel")
\* resolves to deliver (cancel) of the id of the first "Order #<token>"
\* occurrence of the quoted body, and to no call at all when the quoted body
\* has no such occurrence.
C14_ReplyResolvesFirstRef ==
  Interpreted =>
    /\ IsReply("done") =>
         called = IF FirstOrderRef(received.quotedBody) # NoId
                    THEN <<Call("deliver", FirstOrderRef(received.quotedBody))>>
                    ELSE <<>>
    /\ IsReply("cancel") =>
         called = IF FirstOrderRef(received.quotedBody) # NoId
                    THEN <<Call("cancel", FirstOrderRef(received.quotedBody))>>
                    ELSE <<>>

\* C14 witness: a "Done" reply to a body that shows two different order ids
\* after some other text has resolved to deliver of the first of them.
C14_Witness ==
  /\ received.body.word = "Done" /\ received.hasQuotedMsg
  /\ received.quotedBody = <<NoId, generateOrderId(7), generateOrderId(42)>>
  /\ called = <<Call("deliver", generateOrderId(7))>>

\* C15: for a body that starts, in any case, with "done #" or "cancel #", the
\* target order id is exactly the text typed after the prefix, so that the id
\* of an order as displayed in "Order #<id>" names that order.
C15_ByIdTargetsTypedId ==
  Interpreted =>
    /\ toLowerCaseWord(received.body.word) = "done #" =>
         called = <<Call("deliver", received.body.id)>>
    /\ toLowerCaseWord(received.body.word) = "cancel #" =>
         called = <<Call("cancel", received.body.id)>>

\* The received message has one of the recognised forms.
Recognised ==
  \/ IsReply("done") \/ IsReply("cancel")
  \/ toLowerCaseWord(received.body.word) \in
       {"done #", "cancel #", "/daily", "/pending", "/weekly", "/monthly", "/help"}

\* C16: a delivery-group message resolves to at most one action, and a
\* message of none of the recognised forms to none: nothing is called, so no
\* order is changed, no history entry appended and no reply sent.
C16_AtMostOneAction ==
  Interpreted =>
    /\ Len(called) <= 1
    /\ \A i \in 1..Len(called) :
         called[i].cmd \in {"deliver", "cancel", "help"} \cup Reports
    /\ ~Recognised => called = <<>>
    /\ orders = <<>> /\ history = <<>>
    /\ \A h \in Handlers : pc[h] = "idle" /\ outMsg[h] = NoMsg

\* C16 witness: "thanks", sent as a reply to a message that shows an order
\* id, has been interpreted and nothing was called.
C16_Witness ==
  /\ received.body.word = "thanks" /\ received.hasQuotedMsg
  /\ FirstOrderRef(received.quotedBody) # NoId
  /\ called = <<>>

\* The send has ended: the function returned or threw.
SendEnded == sendPc \in {"returned", "thrown"}

\* The client.sendMessage calls that failed.
FailedCalls == {k \in 1..Len(results) : ~results[k]}

\* C17: a send ends after at most 1 + MAX_RETRY_ATTEMPTS client.sendMessage
\* calls: no call is made after a successful one, the function returns exactly
\* when a call succeeded and throws exactly when the first send and all
\* MAX_RETRY_ATTEMPTS retries failed, the k-th wait is RETRY_DELAY * k and
\* follows the k-th failed retry, and no wait follows the last failed retry.
C17_SendIsBounded ==
  /\ [](/\ Len(results) <= 1 + MAX_RETRY_ATTEMPTS
        /\ \A k \in 1..Len(results) : results[k] => k = Len(results)
        /\ sendPc = "returned" => Len(results) >= 1 /\ results[Len(results)]
        /\ sendPc = "thrown" =>
             /\ Len(results) = 1 + MAX_RETRY_ATTEMPTS
             /\ FailedCalls = 1..Len(results)
        /\ \A k \in 1..Len(slept) : slept[k] = RETRY_DELAY * k
        /\ Len(slept) <= MAX_RETRY_ATTEMPTS - 1
        /\ SendEnded =>
             Len(slept) = IF Cardinality(FailedCalls) <= 1 THEN 0
                          ELSE IF sendPc = "thrown" THEN Cardinality(FailedCalls) - 2
                          ELSE Cardinality(FailedCalls) - 1)
  /\ <>SendEnded

\* C17 witness: the first send and the three retries have failed; the waits
\* were RETRY_DELAY and 2 * RETRY_DELAY, and the error is thrown.
C17_Witness ==
  /\ sendPc = "thrown"
  /\ results = <<FALSE, FALSE, FALSE, FALSE>>
  /\ slept = <<RETRY_DELAY, 2 * RETRY_DELAY>>

\* handleSalesGroupMessage has parsed the message and acted on the result.
SalesHandled == salesPc \in {"createOrder", "returned", "rejecting"}

\* C18: when parseOrder yields no draft and the body is longer than 20
\* characters, the rejection is sent to the sales group; when the body is not
\* longer, nothing is sent; createOrder is called in neither case.
C18_IncompleteDraftIsRejected ==
  (SalesHandled /\ orderData = <<>>) =>
    /\ bodyLength(salesBody) > MinOrderLength => salesPc = "rejecting"
    /\ bodyLength(salesBody) <= MinOrderLength => salesPc = "returned"

\* The message is made of one line for each label and nothing else.
LabeledOnly ==
  /\ Len(salesBody) = 4
  /\ \A l \in Labels :
       Cardinality({k \in 1..4 : salesBody[k] # <<>> /\ Head(salesBody[k]) = l}) = 1
  /\ \A k \in 1..4 : Len(salesBody[k]) >= 2

\* The value written after label l in the message.
ValueOf(l) ==
  Tail(salesBody[CHOOSE k \in 1..Len(salesBody) :
                   salesBody[k] # <<>> /\ Head(salesBody[k]) = l])

\* C20: for a message made only of a "name:", a "phone:", an "address:" and
\* an "item:" line with non-empty values, in any order and whatever the
\* values contain, parseOrder returns a draft whose customerName,
\* phoneNumber, address and items are exactly the values of those lines.
C20_LabeledFieldsRecovered ==
  (salesPc # "parseOrder" /\ LabeledOnly) =>
    /\ orderData # <<>>
    /\ \A k \in 1..Len(orderData) :
         /\ orderData[k].customerName = ValueOf("name:")
         /\ orderData[k].phoneNumber = ValueOf("phone:")
         /\ orderData[k].address = ValueOf("address:")
         /\ orderData[k].items = ValueOf("item:")

\* parseOrder has returned for the message.
Parsed == salesPc # "parseOrder"

\* parseOrder has run the heuristic classifier on the message.
HeuristicRan ==
  Parsed /\ Len(splitLines(salesBody)) >= 3 /\ Incomplete(labeledPass)

\* The lines of the message that match a date pattern.
DateLineIndexes == {i \in 1..Len(salesBody) : isDateString(salesBody[i])}

\* C21: when exactly three lines remain in the pool after the phone line and
\* the date line have been removed, the heuristic classifier assigns them by
\* position whatever their content: the first to customerName, the second to
\* address, the third to items.
C21_ThreeLinesPositional ==
  (HeuristicRan /\ Cardinality(DateLineIndexes) <= 1 /\ Len(poolLines) = 3) =>
    /\ unlabeledPass.customerName = poolLines[1]
    /\ unlabeledPass.address = poolLines[2]
    /\ unlabeledPass.items = poolLines[3]

\* The fields that parseOrder requires.
Required == {"customerName", "phoneNumber", "address", "items"}

\* The value of a required field after merging: the labeled one, or the
\* heuristic one when the labeled extractor left the field empty.
Merged(f) == IF labeledPass[f] # <<>> THEN labeledPass[f] ELSE unlabeledPass[f]

\* C22: parseOrder returns a draft if and only if customerName, phoneNumber,
\* address and items are all non-empty after merging the labeled and the
\* heuristic results; every returned draft has the four fields non-empty; a
\* missing deliveryDate plays no part.
C22_DraftIffRequiredFields ==
  Parsed =>
    /\ (orderData # <<>>) <=> (\A f \in Required : Merged(f) # <<>>)
    /\ \A k \in 1..Len(orderData) : \A f \in Required : orderData[k][f] # <<>>

\* C22 witness: a draft without a delivery date has been returned, its name
\* from a labeled line and its address from the heuristic classifier.
C22_Witness ==
  /\ Parsed
  /\ orderData # <<>>
  /\ \A k \in 1..Len(orderData) : orderData[k].deliveryDate = NoDate
  /\ labeledPass.customerName # <<>>
  /\ labeledPass.address = <<>>
  /\ unlabeledPass.address # <<>>

\* C23: merge precedence: a field for which the labeled extractor produced a
\* value carries exactly that value in the draft, whatever the heuristic
\* classifier produced; a heuristic value is used only for a field that the
\* labeled extractor left empty.
C23_LabeledTakesPrecedence ==
  \A k \in 1..Len(orderData) :
    /\ \A f \in Required :
         orderData[k][f] = IF labeledPass[f] # <<>> THEN labeledPass[f]
                                                   ELSE unlabeledPass[f]
    /\ orderData[k].deliveryDate =
         IF labeledPass.deliveryDate # NoDate THEN labeledPass.deliveryDate
                                              ELSE unlabeledPass.deliveryDate

\* C23 witness: the draft carries the labeled name although the heuristic
\* classifier produced another one, and the heuristic address and items for
\* the fields that no labeled line gave.
C23_Witness ==
  /\ orderData # <<>>
  /\ labeledPass.customerName # <<>>
  /\ unlabeledPass.customerName # <<>>
  /\ labeledPass.customerName # unlabeledPass.customerName
  /\ labeledPass.address = <<>> /\ labeledPass.items = <<>>
  /\ \A k \in 1..Len(orderData) :
       /\ orderData[k].customerName = labeledPass.customerName
       /\ orderData[k].address = unlabeledPass.address
       /\ orderData[k].items = unlabeledPass.items

\* The digits of the raw phone number, in their order.
RawDigits == SelectSeq(rawPhone, LAMBDA c : c \in Digits)

CountryCode == <<"2", "3", "4">>

\* The text begins with the country code.
HasCountryCode(text) == Len(text) >= 3 /\ SubSeq(text, 1, 3) = CountryCode

\* C24: the phone number stored at order creation is the normalization of the
\* draft's raw phone: its digits, with a leading 0 replaced by 234, or else
\* with 234 put in front unless they begin with 234, after a "+". So every
\* stored phone number is "+234" followed by digits only, and 08012345678 and
\* 2348012345678 are both stored as +2348012345678.
C24_StoredPhoneIsNormalized ==
  phonePc = "insertOrder" =>
    /\ storedPhone =
         <<"+">> \o (IF RawDigits # <<>> /\ Head(RawDigits) = "0"
                       THEN CountryCode \o Tail(RawDigits)
                     ELSE IF HasCountryCode(RawDigits) THEN RawDigits
                     ELSE CountryCode \o RawDigits)
    /\ Len(storedPhone) >= 4
    /\ storedPhone[1] = "+"
    /\ HasCountryCode(Tail(storedPhone))
    /\ \A k \in 2..Len(storedPhone) : storedPhone[k] \in Digits
    /\ rawPhone \in {LocalNumber, InternationalNumber} =>
         storedPhone = <<"+">> \o InternationalNumber

\* C24 witness: 08012345678 has been stored as +2348012345678.
C24_Witness ==
  /\ phonePc = "insertOrder"
  /\ rawPhone = LocalNumber
  /\ storedPhone = <<"+">> \o InternationalNumber

\* The INSERT INTO orders of handler h succeeds in this step.
Inserts(h) == pc[h] = "insertOrder" /\ pc'[h] = "createHistory"

\* Every order id that createOrder can draw is the id of a stored order.
EveryIdTaken == \A n \in Suffixes : generateOrderId(n) \in DOMAIN orders

\* The history entries of the creation of the order id.
CreationsOf(id) == {i \in EntriesOf(id) : history[i].notes = "Order created"}

\* C25: the order ids of the stored orders are pairwise distinct: an INSERT
\* succeeds only with an id that no stored order has and changes no other
\* row, so no order is created twice. When createOrder draws an id that
\* exists, the creation fails with an error, no other id is tried and the
\* orders and the history are left unchanged.
C25_OrderIdsUnique ==
  /\ [](\A id \in DOMAIN orders : Cardinality(CreationsOf(id)) <= 1)
  /\ [][\A h \in Handlers :
          /\ Inserts(h) =>
               /\ orderId'[h] \notin DOMAIN orders
               /\ DOMAIN orders' = DOMAIN orders \cup {orderId'[h]}
               /\ \A id \in DOMAIN orders : orders'[id] = orders[id]
          /\ (pc[h] = "insertOrder" /\ StepBy(h) /\ EveryIdTaken) =>
               /\ orders' = orders
               /\ history' = history
               /\ pc'[h] \in {"sendCatch", "idle"}
               /\ orderId'[h] = NoId]_vars

\* C25 witness: the only id that can be drawn is stored, and a createOrder has
\* failed: its handler is sending the rejection and has no order.
C25_Witness ==
  \E h \in Handlers :
    /\ EveryIdTaken
    /\ cmd[h] = "create" /\ pc[h] = "sendCatch" /\ orderId[h] = NoId
    /\ \E g \in Handlers \ {h} :
         cmd[g] = "create" /\ orderId[g] \in DOMAIN orders

\* C26: for every order, delivery_person and delivered_at are set only if the
\* status of the order is delivered, and cancelled_at is set only if it is
\* cancelled.
C26_TimestampsMatchStatus ==
  \A id \in DOMAIN orders :
    /\ (orders[id].delivery_person # NULL \/ orders[id].delivered_at # NULL)
         => orders[id].status = "delivered"
    /\ orders[id].cancelled_at # NULL => orders[id].status = "cancelled"

\* No operation on the order id is between its write to orders and its
\* history insert.
Settled(id) ==
  \A h \in Handlers :
    ~(orderId[h] = id /\ pc[h] \in {"createHistory", "history"})

\* The most recently appended history entry of the order id.
LatestEntry(id) ==
  history[CHOOSE i \in EntriesOf(id) : \A j \in EntriesOf(id) : j <= i]

\* C27: for every order that has a history entry, the status of its most
\* recently appended entry is the current status of the order, under any
\* interleaving of commands on the order, once the operations that wrote the
\* order have made their history inserts.
C27_LatestEntryIsStatus ==
  \A id \in DOMAIN orders :
    (EntriesOf(id) # {} /\ Settled(id))
      => LatestEntry(id).status = orders[id].status

\* Handler h starts sending the rejection to the sales group.
StartsRejection(h) ==
  /\ cmd[h] = "create"
  /\ pc[h] # "sendCatch" /\ pc'[h] = "sendCatch"
  /\ outMsg'[h].kind = "Rejection"

\* C28: the rejection is sent for a sales message only if no order was
\* persisted for it: once createOrder has succeeded for the message, the
\* message never produces the rejection, also when the send of a
\* confirmation fails after all retries.
C28_RejectionOnlyIfNotPersisted ==
  [][\A h \in Handlers :
       StartsRejection(h) => orderId[h] = NoId]_vars

\* The line is consumed by the labeled-field extractor as a name, phone,
\* address or item line.
Claimed(line) == line # <<>> /\ toLowerCaseWord(Head(line)) \in Labels

\* C29: the heuristic classifier draws only from the lines that the
\* labeled-field extractor did not claim: no field of the draft is the text
\* of a line that was consumed as a labeled name, phone, address or item line.
C29_HeuristicUsesUnclaimedLines ==
  \A k \in 1..Len(orderData), i \in 1..Len(salesBody) :
    Claimed(salesBody[i]) =>
      \A f \in Required : orderData[k][f] # salesBody[i]

\* The first line of the message that matches a date pattern.
FirstDateLine ==
  CHOOSE i \in DateLineIndexes : \A j \in DateLineIndexes : i <= j

\* C30: in heuristic date detection, when several unclaimed lines match a
\* date pattern, deliveryDate is taken from the first of them and only that
\* line is removed from the pool: the later ones stay in the pool for the
\* assignment of name, address and items.
C30_FirstDateLineOnly ==
  (HeuristicRan /\ Cardinality(DateLineIndexes) >= 2) =>
    /\ unlabeledPass.deliveryDate = parseDate(salesBody[FirstDateLine])
    /\ \A i \in DateLineIndexes \ {FirstDateLine} :
         \E j \in 1..Len(poolLines) : poolLines[j] = salesBody[i]

\* The fields that assignRemainingFields gives out.
PoolFields == {"customerName", "address", "items"}

\* The number of fields that the scoring pass gave a line of this text.
UsesOf(scored, text) == Cardinality({f \in PoolFields : scored[f] = text})

\* The position of line i of the pool among the lines of the same text.
RankInText(i) == Cardinality({j \in 1..i : poolLines[j] = poolLines[i]})

\* The lines of the pool from line i on that the scoring pass has not used,
\* in their order: of the lines of one text, as many are used as fields were
\* given that text.
RECURSIVE UnusedLines(_, _)
UnusedLines(scored, i) ==
  IF i > Len(poolLines) THEN <<>>
  ELSE (IF RankInText(i) > UsesOf(scored, poolLines[i]) THEN <<poolLines[i]>>
                                                       ELSE <<>>)
         \o UnusedLines(scored, i + 1)

\* The fields that are expected from the result of the scoring pass.
FilledInOrder(scored) == fillName(scored, UnusedLines(scored, 1))

\* C31: after the scoring pass, each of customerName, address and items that
\* is still unassigned receives, name first, then address, then items, the
\* first line of the pool that no field has used yet, as long as there is
\* one; also when two lines of the pool have the same text.
C31_UnassignedFieldsFilledInOrder ==
  (HeuristicRan /\ Len(poolLines) >= 2) =>
    LET expected == FilledInOrder(assignBestMatches(sortedByConfidence(poolLines),
                                                    NoFields))
    IN \A f \in PoolFields : unlabeledPass[f] = expected[f]

\* The line is a labeled phone line: it contains "phone" and ":" and is not
\* taken as a name line before.
IsPhoneLine(line) ==
  /\ ~startsWith(line, "name:")
  /\ includes(line, "phone") /\ includes(line, ":")

\* The line is a labeled item line: it contains "item" and ":" and is not
\* taken as a name, phone or address line before.
IsItemLine(line) ==
  /\ ~startsWith(line, "name:") /\ ~IsPhoneLine(line)
  /\ ~startsWith(line, "address:")
  /\ includes(line, "item") /\ includes(line, ":")

\* The last of the given lines of the message.
LastOf(indexes) == salesBody[CHOOSE i \in indexes : \A j \in indexes : j <= i]

PhoneLineIndexes == {i \in 1..Len(salesBody) : IsPhoneLine(salesBody[i])}

ItemLineIndexes == {i \in 1..Len(salesBody) : IsItemLine(salesBody[i])}

\* C32: for a labeled phone line and a labeled item line the extracted value
\* is the whole text after the first colon of the line, trimmed, with any
\* further colons that the text contains.
C32_ValueIsTextAfterFirstColon ==
  (Parsed /\ Len(splitLines(salesBody)) >= 3) =>
    /\ PhoneLineIndexes # {} =>
         labeledPass.phoneNumber = afterColon(LastOf(PhoneLineIndexes))
    /\ ItemLineIndexes # {} =>
         labeledPass.items = afterColon(LastOf(ItemLineIndexes))

\* C33: a message authored by the bot itself makes handleMessage call
\* nothing, in the sales group and in the delivery group: no order is
\* created, no status transition is started and no reply is sent.
C33_OwnMessagesCallNothing ==
  (inbound.isMe /\ handled # NotCalled) => handled = <<>>

\* The bot's own order confirmation, a text that parses as an order, has
\* been handled in the sales group, and its own "done" reply to an order in
\* the delivery group.
C33_Witness ==
  /\ inbound.isMe
  /\ handled = <<>>
  /\ \/ inbound.chat = "SALES" /\ inbound.parsed
     \/ /\ inbound.chat = "DELIVERY"
        /\ handleDeliveryGroupMessage(inbound.message) # <<>>

\* The delays of the attempts scheduled since the last 'ready' are
\* RETRY_DELAY x 1, RETRY_DELAY x 2, ...
DelaysGrowLinearly ==
  \A n \in 1..Len(scheduled) : scheduled[n] = RETRY_DELAY * n

\* C34: since the last 'ready' at most MAX_RETRY_ATTEMPTS attempts have
\* been scheduled, retryCount is within 0..maxRetries, the n-th attempt is
\* delayed by RETRY_DELAY x n, and retryCount changes only by one more
\* attempt or by 'ready', which alone resets it to 0.
C34_ReconnectionBounded ==
  /\ [](/\ retryCount \in 0..MAX_RETRY_ATTEMPTS
        /\ Len(scheduled) <= MAX_RETRY_ATTEMPTS
        /\ Len(scheduled) = retryCount
        /\ DelaysGrowLinearly)
  /\ [][retryCount' # retryCount =>
          \/ retryCount' = retryCount + 1
          \/ retryCount' = 0 /\ readyDue /\ ~readyDue']_vars

\* Every attempt has been made and has failed: the last failure called
\* handleReconnection with the attempts used up.
C34_Witness ==
  /\ retryCount = MAX_RETRY_ATTEMPTS
  /\ Len(scheduled) = MAX_RETRY_ATTEMPTS
  /\ timers = <<>>
  /\ ~readyDue

\* getDailyReport / getWeeklyReport / getMonthlyReport: the counts of the
\* SELECT over the rows that the WHERE clause of the report keeps.
getDailyReport(rows) ==
  [total_orders |-> Cardinality(rows),
   pending_orders |-> Cardinality({id \in rows : orders[id].status = "pending"}),
   delivered_orders |-> Cardinality({id \in rows : orders[id].status = "delivered"}),
   cancelled_orders |-> Cardinality({id \in rows : orders[id].status = "cancelled"})]

\* C35: the status of every order is pending, delivered or cancelled, and
\* in the report over any set of orders total_orders is the sum of
\* pending_orders, delivered_orders and cancelled_orders.
C35_ReportCountsAddUp ==
  /\ \A id \in DOMAIN orders :
       orders[id].status \in {"pending", "delivered", "cancelled"}
  /\ \A rows \in SUBSET DOMAIN orders :
       LET report == getDailyReport(rows) IN
         report.total_orders = report.pending_orders + report.delivered_orders
                                 + report.cancelled_orders

\* A report is being queried while an order has been delivered or cancelled.
C35_Witness ==
  /\ \E h \in Handlers : pc[h] = "report"
  /\ \E id \in DOMAIN orders : orders[id].status \in Terminal

\* C36: formatPhoneNumber applied to a number that it has formatted returns
\* the number unchanged.
C36_FormatPhoneNumberIdempotent ==
  phonePc = "formatted" => storedPhone = rawPhone

\* A local number written with a leading 0 has been formatted twice.
C36_Witness ==
  /\ phonePc = "formatted"
  /\ Len(storedPhone) > 4
  /\ \E p \in RawPhones :
       /\ cleanedStartsWith(replaceNonDigits(p), <<"0">>)
       /\ rawPhone = formatPhoneNumber(p)

====
